---- MODULE Spec2Model ----
(***************************************************************************)
(* The download engine of dvbarinov/downloader.                            *)
(*                                                                         *)
(* Two orchestrators exist in the repository and both are modelled:        *)
(*   - download_files / _download_single  (src/gui/downloader.py), with    *)
(*     probe, resume, sidecar metadata, callbacks and cancellation;        *)
(*   - download_all / download_file       (src/download_files.py), with    *)
(*     the tenacity retry loop and the global result lists.                *)
(* The variable `entry` says which of the two a behaviour runs.            *)
(*                                                                         *)
(* One unit (coroutine) exists per expanded URL; every action is the code  *)
(* a coroutine runs between two suspension points of the asyncio loop.     *)
(* The remote file of every unit is the byte sequence Content; a local     *)
(* file is a sequence of bytes.                                            *)
(*                                                                         *)
(* Spec runs the units of a call whose template is FilesTemplate(n), the   *)
(* token in the file name, so that every unit has its own local path.      *)
(* SpecExpand runs the call from its first line to the spawning loop, on   *)
(* templates of every shape.                                               *)
(***************************************************************************)
EXTENDS Integers, Sequences, FiniteSets, TLC

\* ------------------------------------------------------------------ bounds
MaxUrls == 2          \* largest number of URLs a template expands to
MaxConcurrent == 2    \* largest max_concurrent tried
MaxAttempts == 2      \* largest http.retries.max_attempts tried
Size == 2             \* bytes of every remote file
chunk_size == 1       \* bytes per chunk of iter_chunked
MaxFaults == 1        \* transport errors and bad statuses injected in a run
MaxLocalFiles == 1    \* local files an earlier run left behind
MaxWidth == 2         \* longest start literal of a template's token
MaxStart == 10        \* largest start value of a template's token
MaxSmallEnd == 12     \* end values 0..MaxSmallEnd are tried, and MaxEnd
MaxEnd == 100         \* the one large end value tried

Units == 1..MaxUrls
None == 0 - 1         \* Python's None for an optional non-negative integer

Content == [i \in 1..Size |-> i]

Min(a, b) == IF a < b THEN a ELSE b
Last(s) == s[Len(s)]

Absent == [exists |-> FALSE, data |-> <<>>]
File(bytes) == [exists |-> TRUE, data |-> bytes]

\* Local files a run may find: none, a prefix of the remote file left by an
\* earlier interrupted run (empty, partial, complete), or a longer stale one.
LocalFiles ==
    {Absent} \cup {File(SubSeq(Content, 1, k)) : k \in {0, 1, Size}}
             \cup {File(Content \o <<0>>)}

\* The server of the template's URLs: whether it answers HEAD with 200,
\* whether its responses carry Content-Length, whether it advertises
\* Accept-Ranges: bytes. Where a header cannot matter one value is kept: a
\* server without Content-Length is taken to advertise ranges, one that
\* refuses HEAD to advertise none.
Servers ==
    {s \in [head_ok : BOOLEAN, sends_length : BOOLEAN, accept_ranges : BOOLEAN] :
        /\ s.head_ok /\ ~s.sends_length => s.accept_ranges
        /\ ~s.head_ok => ~s.accept_ranges}

\* ------------------------------------------------- strings and templates
\* A string is a sequence of one-character strings.
Digits == <<"0", "1", "2", "3", "4", "5", "6", "7", "8", "9">>
IsDigit(c) == \E d \in 1..10 : Digits[d] = c
DigitValue(c) == CHOOSE d \in 0..9 : Digits[d + 1] = c

\* Python's int() of a string of digits, str() of a natural number, and
\* str.zfill(width).
RECURSIVE int(_)
int(s) ==
    IF s = <<>> THEN 0
    ELSE int(SubSeq(s, 1, Len(s) - 1)) * 10 + DigitValue(s[Len(s)])

RECURSIVE str(_)
str(n) ==
    IF n < 10 THEN <<Digits[n + 1]>>
    ELSE str(n \div 10) \o <<Digits[(n % 10) + 1]>>

\* A zfill that pads nothing.
zfill_none(s, width) == s

RECURSIVE zfill(_, _)
zfill(s, width) == IF Len(s) >= width THEN s ELSE zfill(<<"0">> \o s, width)

\* re.search(r'\{(\d+)\.\.(\d+)\}', template): the leftmost match. A match
\* gives the positions of "{", of the first "." and of "}".
RECURSIVE SkipDigits(_, _)
SkipDigits(t, k) ==
    IF k <= Len(t) /\ IsDigit(t[k]) THEN SkipDigits(t, k + 1) ELSE k

MatchAt(t, i) ==
    LET d == SkipDigits(t, i + 1)
        e == SkipDigits(t, d + 2)
    IN  [found |-> /\ t[i] = "{"
                   /\ d > i + 1 /\ d + 1 <= Len(t)
                   /\ t[d] = "." /\ t[d + 1] = "."
                   /\ e > d + 2 /\ e <= Len(t)
                   /\ t[e] = "}",
         start |-> i, dots |-> d, end |-> e]

re_search(t) ==
    LET hits == {i \in 1..Len(t) : MatchAt(t, i).found} IN
    IF hits = {} THEN [found |-> FALSE, start |-> 0, dots |-> 0, end |-> 0]
    ELSE MatchAt(t, CHOOSE i \in hits : \A j \in hits : i <= j)

\* The two ValueErrors of expand_wildcard_url, told apart by their message.
NoError == ""
NoTokenError == "ValueError: template must contain {start..end}"
RangeError == "ValueError: start > end"

\* Line 23 / 64: the width numbers are padded to, 0 for no padding.
Width(start_str) ==
    IF start_str[1] = "0" /\ Len(start_str) > 1 THEN Len(start_str) ELSE 0

\* A loop that stops one number early.
NumbersExclusive(start, end) == [k \in 1..(end - start) |-> start + k - 1]

\* range(start, end + 1), lines 26 / 66.
Numbers(start, end) == [k \in 1..(end + 1 - start) |-> start + k - 1]

\* expand_wildcard_url, downloader.py:15-27 and download_files.py:50-71.
expand_wildcard_url(t) ==
    LET match == re_search(t) IN
    IF ~match.found THEN [error |-> NoTokenError, urls |-> <<>>]
    ELSE
      LET start_str == SubSeq(t, match.start + 1, match.dots - 1)
          end_str == SubSeq(t, match.dots + 2, match.end - 1)
          start == int(start_str)
          end == int(end_str)
          width == Width(start_str)
          numbers == Numbers(start, end)
      IN  IF start > end THEN [error |-> RangeError, urls |-> <<>>]
          ELSE [error |-> NoError,
                urls |-> [k \in 1..Len(numbers) |->
                            SubSeq(t, 1, match.start - 1)
                            \o (IF width # 0 THEN zfill(str(numbers[k]), width)
                                ELSE str(numbers[k]))
                            \o SubSeq(t, match.end + 1, Len(t))]]

\* url.split('/')[-1], downloader.py:57 and download_files.py:256.
filename(url) ==
    LET slashes == {i \in 1..Len(url) : url[i] = "/"}
        last == IF slashes = {} THEN 0
                ELSE CHOOSE i \in slashes : \A j \in slashes : j <= i
    IN  SubSeq(url, last + 1, Len(url))

\* A template as it is put together: the text before the token, the two
\* literals, the text after it; kind "none" is a text without a token,
\* kept whole in prefix.
Token(start_str, end_str) ==
    <<"{">> \o start_str \o <<".", ".">> \o end_str \o <<"}">>
Text(tpl) ==
    IF tpl.kind = "token"
    THEN tpl.prefix \o Token(tpl.start_str, tpl.end_str) \o tpl.suffix
    ELSE tpl.prefix
Template(prefix, start_str, end_str, suffix) ==
    [kind |-> "token", prefix |-> prefix, start_str |-> start_str,
     end_str |-> end_str, suffix |-> suffix]
Plain(text) ==
    [kind |-> "none", prefix |-> text, start_str |-> <<>>,
     end_str |-> <<>>, suffix |-> <<>>]

\* The template of a run with n files: "h/f{1..n}".
FilesTemplate(n) == Template(<<"h", "/", "f">>, <<"1">>, str(n), <<>>)

\* Units are interchangeable, so the local files are listed largest first.
Rank(file) == IF file.exists THEN Len(file.data) + 1 ELSE 0

VARIABLES
    entry,            \* "download_files" (GUI core) or "download_all" (CLI)
    urls,             \* number of URLs the template expanded to
    max_concurrent,   \* Semaphore(max_concurrent)
    resume,           \* download_files(resume=...)
    retries_enabled,  \* http.retries.enabled
    max_attempts,     \* http.retries.max_attempts
    server,           \* what the server of the template's URLs sends
    faults,           \* transport errors and bad statuses injected so far
    cancelled,        \* MainWindow._cancelled, read through check_cancelled
    opc,              \* position of the orchestrator coroutine
    next_url,         \* index of the URL the spawning loop handles next
    pc,               \* position of every unit's coroutine
    value,            \* Semaphore._value: free permits
    disk,             \* the local file of every unit
    init_disk,        \* the local files the run started with (never changes)
    meta,             \* whether the sidecar .<filename>.meta exists
    task,             \* the locals of every unit's coroutine
    attempt,          \* tenacity's attempt number of every unit
    requests,         \* content (GET) requests issued, per unit, in order
    written,          \* bytes written through the handle opened last, per unit
    started,          \* on_start calls, per unit
    progress,         \* the last on_progress / progress.update event, per unit
    completions,      \* on_complete calls (the success flag), per unit
    completed_files,  \* download_files.completed_files
    failed_files,     \* download_files.failed_files
    template,         \* url_template, as it is put together
    expanded,         \* the URLs expand_wildcard_url returned
    error,            \* the message of the ValueError of the expansion, if any
    output_dir        \* whether output_path.mkdir has run

vars == <<entry, urls, max_concurrent, resume, retries_enabled, max_attempts,
          server, faults, cancelled, opc, next_url, pc, value, disk, init_disk, meta, task,
          attempt, requests, written, started, progress, completions,
          completed_files, failed_files,
          template, expanded, error, output_dir>>

params == <<entry, urls, max_concurrent, resume, retries_enabled,
            max_attempts, server, init_disk,
            template, expanded, error, output_dir>>

Active == 1..urls

\* `status` is resp.status of the content request of _download_single, 0
\* while no response has arrived.
NoTask == [server_size |-> None, accepts_ranges |-> FALSE, mode |-> "",
           downloaded |-> 0, ranged |-> FALSE, status |-> 0, total |-> 0,
           body |-> <<>>]

Init ==
    /\ entry \in {"download_files", "download_all"}
    /\ urls \in 1..MaxUrls
    /\ max_concurrent \in 1..MaxConcurrent
    /\ resume \in IF entry = "download_files" THEN BOOLEAN ELSE {TRUE}
    /\ retries_enabled \in IF entry = "download_all" THEN BOOLEAN ELSE {FALSE}
    /\ max_attempts \in IF entry = "download_all" /\ retries_enabled
                        THEN 1..MaxAttempts ELSE {1}
    /\ server \in Servers
    /\ entry = "download_all" => server.head_ok /\ server.accept_ranges
    \* resume can matter only if the server reports a size and ranges
    /\ ~resume => server.head_ok /\ server.accept_ranges
    \* responses without Content-Length are tried with the retries off
    /\ retries_enabled => server.sends_length
    /\ faults = 0
    /\ cancelled = FALSE
    /\ opc = "spawn"
    /\ next_url = 1
    /\ pc = [u \in Units |-> "none"]
    /\ value = max_concurrent
    /\ disk \in [Units -> LocalFiles]
    /\ \A u \in Units : u > urls => disk[u] = Absent
    /\ entry = "download_all" =>
           \A u \in Units : disk[u] \in {Absent, File(Content \o <<0>>)}
    /\ Cardinality({u \in Units : disk[u].exists}) <= MaxLocalFiles
    /\ \A u, v \in Units : u < v => Rank(disk[u]) >= Rank(disk[v])
    /\ init_disk = disk
    /\ meta = [u \in Units |-> FALSE]
    /\ task = [u \in Units |-> NoTask]
    /\ attempt = [u \in Units |-> 0]
    /\ requests = [u \in Units |-> <<>>]
    /\ written = [u \in Units |-> <<>>]
    /\ started = [u \in Units |-> 0]
    /\ progress = [u \in Units |-> <<>>]
    /\ completions = [u \in Units |-> <<>>]
    /\ completed_files = <<>>
    /\ failed_files = <<>>
    \* the template has been expanded and the directory made, lines 45-47
    /\ template = FilesTemplate(urls)
    /\ expanded = expand_wildcard_url(Text(template)).urls
    /\ Len(expanded) = urls
    /\ error = NoError
    /\ output_dir = TRUE

\* ------------------------------------------------------- the environment
\* Status codes a server may answer with.
Statuses == {200, 206, 500}

\* The body a server sends: the bytes from the requested offset on with 206,
\* the whole file with 200.
ServerBody(status, offset) ==
    IF status = 206 THEN SubSeq(Content, offset + 1, Size) ELSE Content

\* Content-Length of a response to a request for `bytes`.
content_length_of(bytes) ==
    IF server.sends_length THEN Len(bytes) ELSE None

\* The status the server answers a HEAD request with.
HeadStatus == IF server.head_ok THEN 200 ELSE 405

\* The status an orderly server answers a content request with.
OrderlyStatus(ranged) == IF ranged THEN 206 ELSE 200

\* A transport error, a timeout or a bad status may still be injected.
\* download_all needs max_attempts of them to exhaust one unit's retries.
FaultBudget ==
    IF entry = "download_all" /\ max_attempts > MaxFaults
    THEN max_attempts ELSE MaxFaults
MayFail == faults < FaultBudget
Fault == faults' = faults + 1

\* --------------------------------------------------- asyncio.Semaphore
LockedNever(v) == FALSE               \* a gate that admits everybody
Locked(v) == v = 0

\* ------------------------------------------- _download_single, pure parts
\* Lines 79-88: what the probe leaves in server_size and accepts_ranges.
Probe(status, content_length, accept_ranges_header) ==
    LET size == IF status = 200 THEN content_length ELSE None
        ranges == IF status = 200 THEN accept_ranges_header ELSE FALSE
    IN  [server_size |-> size,
         accepts_ranges |-> IF size = None THEN FALSE ELSE ranges]

\* Lines 91-114 without the branch of lines 100-104.
DecidingNoShortCut(file, server_size, accepts_ranges, resume_) ==
    LET local_size == Len(file.data) IN
    IF file.exists /\ resume_ /\ accepts_ranges /\ local_size < server_size
    THEN [branch |-> "resume", mode |-> "ab", downloaded |-> local_size,
          accepts_ranges |-> accepts_ranges]
    ELSE [branch |-> "fresh", mode |-> "wb", downloaded |-> 0,
          accepts_ranges |-> IF file.exists THEN FALSE ELSE accepts_ranges]

\* Lines 91-114: the branch taken for the local file that is found.
Deciding(file, server_size, accepts_ranges, resume_) ==
    LET local_size == Len(file.data) IN
    IF file.exists
    THEN IF resume_ /\ accepts_ranges /\ local_size < server_size
         THEN [branch |-> "resume", mode |-> "ab", downloaded |-> local_size,
               accepts_ranges |-> accepts_ranges]
         ELSE IF local_size = server_size
         THEN [branch |-> "already", mode |-> "", downloaded |-> 0,
               accepts_ranges |-> accepts_ranges]
         ELSE [branch |-> "fresh", mode |-> "wb", downloaded |-> 0,
               accepts_ranges |-> FALSE]
    ELSE [branch |-> "fresh", mode |-> "wb", downloaded |-> 0,
          accepts_ranges |-> accepts_ranges]

\* A Range header sent whenever the server advertises ranges.
RangeHeaderFromZero(accepts_ranges, downloaded) == accepts_ranges

\* Line 122: whether a Range header is sent.
RangeHeader(accepts_ranges, downloaded) == accepts_ranges /\ downloaded > 0

\* A unit that takes any 200 for an answer.
expected_status_always_200(ranged, accepts_ranges) == 200

\* Line 125.
expected_status(ranged, accepts_ranges) ==
    IF ranged /\ accepts_ranges THEN 206 ELSE 200

\* Line 129: total = server_size or resp.content_length or 0.
Total(server_size, content_length) ==
    IF server_size # None /\ server_size # 0 THEN server_size
    ELSE IF content_length # None /\ content_length # 0 THEN content_length
    ELSE 0

\* open(filepath, "wb") whatever the mode chosen.
OpenFileTruncating(file, mode) == [exists |-> TRUE, data |-> <<>>]

\* open(filepath, mode): "wb" truncates, "ab" keeps what is there.
OpenFile(file, mode) ==
    IF mode = "ab" THEN File(file.data) ELSE File(<<>>)

\* The sidecar after each way out of _download_single.
MetaAfterSuccess(m) == m          \* lines 139-140 unlink nothing
MetaAfterCancel(m) == m           \* lines 142-146 unlink nothing
MetaKept(m) == m                  \* a handler that forgets the unlink
MetaAfterError(m) == FALSE        \* line 150: meta_path.unlink(missing_ok=True)

\* A handler that unlinks the partial file.
FileDeleted(file) == [exists |-> FALSE, data |-> <<>>]

\* The local file after the DownloadCancelled handler (lines 142-146).
FileAfterCancel(file) == file

\* ------------------------------------------------------ download_file, pure
\* A stop condition that allows one attempt too many.
stop_after_attempt_late(attempt_number, max_attempt_number) ==
    attempt_number > max_attempt_number

\* tenacity's stop_after_attempt(max_attempts), line 115.
stop_after_attempt(attempt_number, max_attempt_number) ==
    attempt_number >= max_attempt_number

\* Attempts that append to what the failed attempt left.
AttemptModeAppend == "ab"

\* Line 138 / 151: every attempt opens the file with "wb".
AttemptMode == "wb"

\* A bar that is reset when an attempt starts.
CompletedReset(completed) == 0

\* The bar's completed count when an attempt starts: lines 130-136 / 147-149
\* set the total only, what earlier attempts advanced stays.
CompletedAtAttempt(completed) == completed

\* Lines 130 / 148: total = resp.content_length or 1.
CliTotal(content_length) ==
    IF content_length # None /\ content_length # 0 THEN content_length ELSE 1

\* ------------------------------------------------------------ unit states
Terminal == {"done", "failed", "cancelled"}
Fetching == {"get", "stream", "wait"}     \* the unit holds a permit
Running == opc \in {"gather", "as_completed"}
Finished == opc \in {"returned", "raised"}

Gui == entry = "download_files"
Cli == entry = "download_all"

\* ------------------------------------------------------------- callbacks
on_start_skipped(u) == started' = started     \* the callback is not called
on_start(u) == started' = [started EXCEPT ![u] = @ + 1]
on_progress(u, done, total) ==
    progress' = [progress EXCEPT ![u] = <<done, total>>]
on_complete(u, success) ==
    completions' = [completions EXCEPT ![u] = Append(@, success)]

\* ------------------------------------------------ download_files (GUI core)
\* One iteration of the spawning loop, lines 54-64.
download_files_spawn ==
    /\ Gui /\ opc = "spawn" /\ next_url <= urls
    /\ IF cancelled
       THEN /\ opc' = "raised"            \* raise DownloadCancelled, line 56
            /\ UNCHANGED <<next_url, pc, started>>
       ELSE /\ on_start(next_url)
            /\ pc' = [pc EXCEPT ![next_url] = "created"]
            /\ next_url' = next_url + 1
            /\ opc' = opc
    /\ UNCHANGED <<params, faults, cancelled, value, disk, meta, task, attempt,
                   requests, written, progress, completions,
                   completed_files, failed_files>>

\* Line 65: gather schedules every coroutine; each runs up to its HEAD request.
download_files_gather ==
    /\ Gui /\ opc = "spawn" /\ next_url > urls
    /\ opc' = "gather"
    /\ pc' = [u \in Units |-> IF u \in Active THEN "head" ELSE pc[u]]
    /\ UNCHANGED <<params, faults, cancelled, next_url, value, disk, meta, task,
                   attempt, requests, written, started, progress, completions,
                   completed_files, failed_files>>

\* gather (return_exceptions=False) hands the first exception of a child to
\* the awaiting orchestrator, whatever the other children are doing.
download_files_raise ==
    /\ Gui /\ opc = "gather"
    /\ \E u \in Active : pc[u] = "cancelled"
    /\ opc' = "raised"
    /\ UNCHANGED <<params, faults, cancelled, next_url, pc, value, disk, meta, task,
                   attempt, requests, written, started, progress, completions,
                   completed_files, failed_files>>

\* gather returns once every child has returned.
download_files_return ==
    /\ Gui /\ opc = "gather"
    /\ \A u \in Active : pc[u] \in {"done", "failed"}
    /\ opc' = "returned"
    /\ UNCHANGED <<params, faults, cancelled, next_url, pc, value, disk, meta, task,
                   attempt, requests, written, started, progress, completions,
                   completed_files, failed_files>>

\* MainWindow.cancel_download, on the GUI thread, at any moment of a run.
cancel_download ==
    /\ Gui /\ ~Finished /\ ~cancelled
    /\ cancelled' = TRUE
    /\ UNCHANGED <<params, faults, opc, next_url, pc, value, disk, meta, task,
                   attempt, requests, written, started, progress, completions,
                   completed_files, failed_files>>

\* ------------------------------------------------------- _download_single
\* A handler that reports the failure twice.
single_fail_twice(u, held) ==
    /\ meta' = [meta EXCEPT ![u] = FALSE]
    /\ completions' = [completions EXCEPT ![u] = @ \o <<FALSE, FALSE>>]
    /\ pc' = [pc EXCEPT ![u] = "failed"]
    /\ value' = IF held THEN value + 1 ELSE value

\* The handler `except Exception`, lines 147-154; `held` says whether the
\* exception left the `async with semaphore` block.
single_fail(u, held) ==
    /\ meta' = [meta EXCEPT ![u] = MetaAfterError(@)]
    /\ on_complete(u, FALSE)
    /\ pc' = [pc EXCEPT ![u] = "failed"]
    /\ value' = IF held THEN value + 1 ELSE value

\* Lines 123-124: a permit is taken and the content request goes out.
single_get(u, ranged, downloaded) ==
    /\ value' = value - 1
    /\ requests' = [requests EXCEPT ![u] =
                      Append(@, [ranged |-> ranged,
                                 offset |-> IF ranged THEN downloaded ELSE 0])]
    /\ pc' = [pc EXCEPT ![u] = "get"]

\* The HEAD request ends: lines 79-124, up to the next network event. The
\* local file is inspected; unless it is complete the sidecar is written and
\* the headers are chosen; with a free permit `async with semaphore` does not
\* suspend and the content request goes out at once, else the unit waits.
single_probe(u) ==
    /\ Gui /\ Running /\ pc[u] = "head"
    /\ \/ \* transport error or timeout: the exception reaches line 147
          /\ MayFail /\ Fault
          /\ single_fail(u, FALSE)
          /\ UNCHANGED <<task, progress, requests>>
       \/ LET p == Probe(HeadStatus, content_length_of(Content),
                         server.accept_ranges)
              d == Deciding(disk[u], p.server_size, p.accepts_ranges, resume)
              ranged == RangeHeader(d.accepts_ranges, d.downloaded)
          IN
            /\ UNCHANGED faults
            /\ task' = [task EXCEPT ![u].server_size = p.server_size,
                                    ![u].accepts_ranges = d.accepts_ranges,
                                    ![u].mode = d.mode,
                                    ![u].downloaded = d.downloaded,
                                    ![u].ranged = ranged]
            /\ IF d.branch = "already"
               THEN /\ on_complete(u, TRUE)
                    /\ pc' = [pc EXCEPT ![u] = "done"]
                    /\ UNCHANGED <<progress, meta, value, requests>>
               ELSE /\ IF d.branch = "resume"
                       THEN on_progress(u, d.downloaded, p.server_size)
                       ELSE UNCHANGED progress
                    /\ meta' = [meta EXCEPT ![u] = TRUE]
                    /\ IF Locked(value)
                       THEN /\ pc' = [pc EXCEPT ![u] = "acquire"]
                            /\ UNCHANGED <<value, requests>>
                       ELSE single_get(u, ranged, d.downloaded)
                    /\ UNCHANGED completions
    /\ UNCHANGED <<params, cancelled, opc, next_url, disk, attempt,
                   written, started, completed_files, failed_files>>

\* Line 123: the unit is given a permit.
single_acquire(u) ==
    /\ Gui /\ Running /\ pc[u] = "acquire"
    /\ ~Locked(value)
    /\ single_get(u, task[u].ranged, task[u].downloaded)
    /\ UNCHANGED <<params, faults, cancelled, opc, next_url, disk, meta, task,
                   attempt, written, started, progress, completions,
                   completed_files, failed_files>>

\* Lines 124-130: the response head arrives; the file is opened.
single_response(u) ==
    /\ Gui /\ Running /\ pc[u] = "get"
    /\ \/ \* transport error or timeout
          /\ MayFail /\ Fault
          /\ single_fail(u, TRUE)
          /\ UNCHANGED <<task, disk, written>>
       \/ \E status \in Statuses :
            /\ IF status = OrderlyStatus(Last(requests[u]).ranged)
               THEN UNCHANGED faults ELSE MayFail /\ Fault
            /\ IF status # expected_status(task[u].ranged,
                                           task[u].accepts_ranges)
               THEN \* lines 126-127: raised before the file is opened
                    /\ single_fail(u, TRUE)
                    /\ task' = [task EXCEPT ![u].status = status]
                    /\ UNCHANGED <<disk, written>>
               ELSE LET body == ServerBody(status, Last(requests[u]).offset)
                        content_length == content_length_of(body)
                    IN
                    /\ task' = [task EXCEPT
                                  ![u].status = status,
                                  ![u].total = Total(task[u].server_size,
                                                     content_length),
                                  ![u].body = body]
                    /\ disk' = [disk EXCEPT ![u] = OpenFile(@, task[u].mode)]
                    /\ written' = [written EXCEPT ![u] = <<>>]
                    /\ pc' = [pc EXCEPT ![u] = "stream"]
                    /\ UNCHANGED <<meta, completions, value>>
    /\ UNCHANGED <<params, cancelled, opc, next_url, attempt, requests,
                   started, progress, completed_files, failed_files>>

\* A loop that polls the flag after the write of the chunk.
single_chunk_polled_late(u) ==
    /\ Gui /\ Running /\ pc[u] = "stream" /\ task[u].body # <<>>
    /\ LET n == Min(chunk_size, Len(task[u].body))
           chunk == SubSeq(task[u].body, 1, n)
           done == task[u].downloaded + n
       IN  /\ disk' = [disk EXCEPT ![u].data = @ \o chunk]
           /\ written' = [written EXCEPT ![u] = @ \o chunk]
           /\ task' = [task EXCEPT ![u].downloaded = done,
                                   ![u].body = SubSeq(@, n + 1, Len(@))]
           /\ on_progress(u, done,
                          IF task[u].total # 0 THEN task[u].total ELSE done)
           /\ IF cancelled
              THEN /\ on_complete(u, FALSE)
                   /\ value' = value + 1
                   /\ pc' = [pc EXCEPT ![u] = "cancelled"]
                   /\ UNCHANGED meta
              ELSE UNCHANGED <<meta, value, pc, completions>>
    /\ UNCHANGED <<params, faults, cancelled, opc, next_url, attempt, requests,
                   started, completed_files, failed_files>>

\* Lines 131-137: one chunk arrives; the flag is polled, the chunk written.
\* The flag only ever goes from false to true, so a write whose poll had
\* passed before the flag was set is a write that precedes the setting.
single_chunk(u) ==
    /\ Gui /\ Running /\ pc[u] = "stream" /\ task[u].body # <<>>
    /\ LET n == Min(chunk_size, Len(task[u].body))
           chunk == SubSeq(task[u].body, 1, n)
           done == task[u].downloaded + n
       IN  IF cancelled
           THEN \* raise DownloadCancelled; handler of lines 142-146
                /\ on_complete(u, FALSE)
                /\ meta' = [meta EXCEPT ![u] = MetaAfterCancel(@)]
                /\ disk' = [disk EXCEPT ![u] = FileAfterCancel(@)]
                /\ value' = value + 1
                /\ pc' = [pc EXCEPT ![u] = "cancelled"]
                /\ UNCHANGED <<task, written, progress>>
           ELSE /\ disk' = [disk EXCEPT ![u].data = @ \o chunk]
                /\ written' = [written EXCEPT ![u] = @ \o chunk]
                /\ task' = [task EXCEPT
                              ![u].downloaded = done,
                              ![u].body = SubSeq(@, n + 1, Len(@))]
                /\ on_progress(u, done,
                               IF task[u].total # 0 THEN task[u].total ELSE done)
                /\ UNCHANGED <<meta, value, pc, completions>>
    /\ UNCHANGED <<params, faults, cancelled, opc, next_url, attempt, requests,
                   started, completed_files, failed_files>>

\* A transport error or the total timeout while the body is streamed.
single_error(u) ==
    /\ Gui /\ Running /\ pc[u] = "stream"
    /\ MayFail /\ Fault
    /\ single_fail(u, TRUE)
    /\ UNCHANGED <<params, cancelled, opc, next_url, disk, task, attempt,
                   requests, written, started, progress,
                   completed_files, failed_files>>

\* A unit that leaves with its permit.
single_finish_holding(u) ==
    /\ Gui /\ Running /\ pc[u] = "stream" /\ task[u].body = <<>>
    /\ on_complete(u, TRUE)
    /\ pc' = [pc EXCEPT ![u] = "done"]
    /\ UNCHANGED <<params, faults, cancelled, opc, next_url, value, disk, meta,
                   task, attempt, requests, written, started, progress,
                   completed_files, failed_files>>

\* Lines 139-140: the body is drained.
single_finish(u) ==
    /\ Gui /\ Running /\ pc[u] = "stream" /\ task[u].body = <<>>
    /\ on_complete(u, TRUE)
    /\ meta' = [meta EXCEPT ![u] = MetaAfterSuccess(@)]
    /\ value' = value + 1
    /\ pc' = [pc EXCEPT ![u] = "done"]
    /\ UNCHANGED <<params, faults, cancelled, opc, next_url, disk, task, attempt,
                   requests, written, started, progress,
                   completed_files, failed_files>>

\* ------------------------------------------------------ download_all (CLI)
\* Lines 209-266: the lists are cleared and one task is created per URL.
download_all_spawn ==
    /\ Cli /\ opc = "spawn"
    /\ completed_files' = <<>>
    /\ failed_files' = <<>>
    /\ pc' = [u \in Units |-> IF u \in Active THEN "acquire" ELSE pc[u]]
    /\ next_url' = urls + 1
    /\ opc' = "as_completed"
    /\ UNCHANGED <<params, faults, cancelled, value, disk, meta, task, attempt,
                   requests, written, started, progress, completions>>

\* Lines 270-272: every task has been awaited.
download_all_return ==
    /\ Cli /\ opc = "as_completed"
    /\ \A u \in Active : pc[u] \in {"done", "failed"}
    /\ opc' = "returned"
    /\ UNCHANGED <<params, faults, cancelled, next_url, pc, value, disk, meta, task,
                   attempt, requests, written, started, progress, completions,
                   completed_files, failed_files>>

\* ---------------------------------------------------------- download_file
\* An attempt ends with an exception: tenacity retries or re-raises into the
\* handler of lines 165-168.
file_attempt_failed(u) ==
    IF retries_enabled /\ ~stop_after_attempt(attempt[u], max_attempts)
    THEN /\ pc' = [pc EXCEPT ![u] = "wait"]
         /\ UNCHANGED <<failed_files, value>>
    ELSE /\ failed_files' = Append(failed_files, u)
         /\ value' = value + 1
         /\ pc' = [pc EXCEPT ![u] = "failed"]

\* The content request of an attempt, lines 120 / 146.
file_get(u) ==
    /\ attempt' = [attempt EXCEPT ![u] = @ + 1]
    /\ requests' = [requests EXCEPT ![u] =
                      Append(@, [ranged |-> FALSE, offset |-> 0])]
    /\ pc' = [pc EXCEPT ![u] = "get"]

\* Line 108 and the first attempt's request.
file_acquire(u) ==
    /\ Cli /\ Running /\ pc[u] = "acquire"
    /\ ~Locked(value)
    /\ value' = value - 1
    /\ file_get(u)
    /\ UNCHANGED <<params, faults, cancelled, opc, next_url, disk, meta, task,
                   written, started, progress, completions,
                   completed_files, failed_files>>

\* Lines 120-138 / 146-151: the response head arrives; the file is opened.
file_response(u) ==
    /\ Cli /\ Running /\ pc[u] = "get"
    /\ \/ \* transport error or timeout
          /\ MayFail /\ Fault
          /\ file_attempt_failed(u)
          /\ UNCHANGED <<task, disk, written, progress>>
       \/ \E status \in Statuses :
            /\ IF status = OrderlyStatus(FALSE)
               THEN UNCHANGED faults ELSE MayFail /\ Fault
            /\ IF status # 200
               THEN /\ file_attempt_failed(u)
                    /\ UNCHANGED <<task, disk, written, progress>>
               ELSE LET body == ServerBody(status, 0)
                        content_length == content_length_of(body)
                    IN
                    /\ task' = [task EXCEPT
                                  ![u].total = CliTotal(content_length),
                                  ![u].mode = AttemptMode,
                                  ![u].downloaded = CompletedAtAttempt(@),
                                  ![u].body = body]
                    /\ on_progress(u, CompletedAtAttempt(task[u].downloaded),
                                   CliTotal(content_length))
                    /\ disk' = [disk EXCEPT ![u] = OpenFile(@, AttemptMode)]
                    /\ written' = [written EXCEPT ![u] = <<>>]
                    /\ pc' = [pc EXCEPT ![u] = "stream"]
                    /\ UNCHANGED <<failed_files, value>>
    /\ UNCHANGED <<params, cancelled, opc, next_url, meta, attempt, requests,
                   started, completions, completed_files>>

\* Lines 139-141 / 152-154: one chunk is written and the bar advanced.
file_chunk(u) ==
    /\ Cli /\ Running /\ pc[u] = "stream" /\ task[u].body # <<>>
    /\ LET n == Min(chunk_size, Len(task[u].body))
           chunk == SubSeq(task[u].body, 1, n)
           done == task[u].downloaded + n
       IN  /\ disk' = [disk EXCEPT ![u].data = @ \o chunk]
           /\ written' = [written EXCEPT ![u] = @ \o chunk]
           /\ task' = [task EXCEPT ![u].downloaded = done,
                                   ![u].body = SubSeq(@, n + 1, Len(@))]
           /\ on_progress(u, done, task[u].total)
    /\ UNCHANGED <<params, faults, cancelled, opc, next_url, pc, value, meta, attempt,
                   requests, started, completions,
                   completed_files, failed_files>>

\* A transport error or the total timeout while the body is streamed.
file_error(u) ==
    /\ Cli /\ Running /\ pc[u] = "stream"
    /\ MayFail /\ Fault
    /\ file_attempt_failed(u)
    /\ UNCHANGED <<params, cancelled, opc, next_url, disk, meta, task, attempt,
                   requests, written, started, progress, completions,
                   completed_files>>

\* wait_fixed(delay) is over: tenacity calls _download again.
file_retry(u) ==
    /\ Cli /\ Running /\ pc[u] = "wait"
    /\ file_get(u)
    /\ UNCHANGED <<params, faults, cancelled, opc, next_url, value, disk, meta, task,
                   written, started, progress, completions,
                   completed_files, failed_files>>

\* Lines 143 / 155: the body is drained.
file_finish(u) ==
    /\ Cli /\ Running /\ pc[u] = "stream" /\ task[u].body = <<>>
    /\ completed_files' = Append(completed_files, u)
    /\ value' = value + 1
    /\ pc' = [pc EXCEPT ![u] = "done"]
    /\ UNCHANGED <<params, faults, cancelled, opc, next_url, disk, meta, task, attempt,
                   requests, written, started, progress, completions,
                   failed_files>>

\* ------------------------------------------------------------------- Spec
Next ==
    \/ download_files_spawn
    \/ download_files_gather
    \/ download_files_raise
    \/ download_files_return
    \/ cancel_download
    \/ download_all_spawn
    \/ download_all_return
    \/ \E u \in Active : single_probe(u)
    \/ \E u \in Active : single_acquire(u)
    \/ \E u \in Active : single_response(u)
    \/ \E u \in Active : single_chunk(u)
    \/ \E u \in Active : single_error(u)
    \/ \E u \in Active : single_finish(u)
    \/ \E u \in Active : file_acquire(u)
    \/ \E u \in Active : file_response(u)
    \/ \E u \in Active : file_chunk(u)
    \/ \E u \in Active : file_error(u)
    \/ \E u \in Active : file_retry(u)
    \/ \E u \in Active : file_finish(u)

Spec == Init /\ [][Next]_vars

\* The event loop runs every coroutine that is ready and every network call
\* ends (with a response, an error or the ClientTimeout); asyncio.Semaphore
\* wakes its waiters first come first served, so a waiter that can be
\* admitted again and again is admitted. Nothing obliges the user to cancel
\* or the network to fail.
Fairness ==
    /\ WF_vars(download_files_spawn)
    /\ WF_vars(download_files_gather)
    /\ WF_vars(download_files_raise)
    /\ WF_vars(download_files_return)
    /\ WF_vars(download_all_spawn)
    /\ WF_vars(download_all_return)
    /\ \A u \in Units :
          /\ WF_vars(single_probe(u))
          /\ SF_vars(single_acquire(u))
          /\ WF_vars(single_response(u))
          /\ WF_vars(single_chunk(u))
          /\ WF_vars(single_finish(u))
          /\ SF_vars(file_acquire(u))
          /\ WF_vars(file_response(u))
          /\ WF_vars(file_chunk(u))
          /\ WF_vars(file_retry(u))
          /\ WF_vars(file_finish(u))

FairSpec == Spec /\ Fairness

\* ------------------------------------------ the call up to the spawning
\* The templates a call is tried with.
DigitStrings(n) == [1..n -> {Digits[d] : d \in 1..10}]
StartLiterals ==
    {s \in UNION {DigitStrings(n) : n \in 1..MaxWidth} : int(s) <= MaxStart}
EndLiterals ==
    {str(v) : v \in (0..MaxSmallEnd) \cup {MaxEnd}}
       \cup {<<"0">> \o str(v) : v \in 0..MaxSmallEnd}
Prefixes == {<<"h", "/">>, <<"h", "/", "f">>}
Suffixes ==
    {<<>>, <<".", "b">>, <<"/", "f">>, <<"/">> \o Token(<<"1">>, <<"2">>)}
PlainTexts ==
    {<<"h", "/", "f">>,
     <<"h", "/", "{", "1", ".", "2", "}">>,
     <<"h", "/", "{", ".", ".", "3", "}">>,
     <<"h", "/", "{", "1", ".", ".", "}">>,
     <<"h", "/", "{", "1", ".", ".", "2">>,
     <<"h", "/", "1", ".", ".", "2", "}">>}
Templates ==
    {Template(p, a, b, x) :
        p \in Prefixes, a \in StartLiterals, b \in EndLiterals, x \in Suffixes}
       \cup {Plain(t) : t \in PlainTexts}

InitExpand ==
    /\ entry \in {"download_files", "download_all"}
    /\ template \in Templates
    /\ expanded = <<>>
    /\ error = NoError
    /\ output_dir = FALSE
    /\ urls = 0
    /\ max_concurrent = 1
    /\ resume = TRUE
    /\ retries_enabled = FALSE
    /\ max_attempts = 1
    /\ server = [head_ok |-> TRUE, sends_length |-> TRUE, accept_ranges |-> TRUE]
    /\ faults = 0
    /\ cancelled = FALSE
    /\ opc = "call"
    /\ next_url = 1
    /\ pc = [u \in Units |-> "none"]
    /\ value = 0
    /\ disk = [u \in Units |-> Absent]
    /\ init_disk = disk
    /\ meta = [u \in Units |-> FALSE]
    /\ task = [u \in Units |-> NoTask]
    /\ attempt = [u \in Units |-> 0]
    /\ requests = [u \in Units |-> <<>>]
    /\ written = [u \in Units |-> <<>>]
    /\ started = [u \in Units |-> 0]
    /\ progress = [u \in Units |-> <<>>]
    /\ completions = [u \in Units |-> <<>>]
    /\ completed_files = <<>>
    /\ failed_files = <<>>

\* The directory is made before the template is looked at.
mkdir_then_expand ==
    LET r == expand_wildcard_url(Text(template)) IN
    /\ output_dir' = TRUE
    /\ IF r.error # NoError
       THEN /\ error' = r.error
            /\ opc' = "invalid"
            /\ UNCHANGED <<expanded, urls, value>>
       ELSE /\ expanded' = r.urls
            /\ urls' = Len(r.urls)
            /\ value' = max_concurrent
            /\ opc' = "spawn"
            /\ UNCHANGED error

\* downloader.py:45-50 and download_files.py:215-224: the template is
\* expanded, which may raise; then the directory is made and the semaphore
\* created.
expand_then_mkdir ==
    LET r == expand_wildcard_url(Text(template)) IN
    IF r.error # NoError
    THEN /\ error' = r.error
         /\ opc' = "invalid"
         /\ UNCHANGED <<expanded, urls, output_dir, value>>
    ELSE /\ expanded' = r.urls
         /\ urls' = Len(r.urls)
         /\ output_dir' = TRUE
         /\ value' = max_concurrent
         /\ opc' = "spawn"
         /\ UNCHANGED error

\* download_files, lines 45-50.
download_files_call ==
    /\ Gui /\ opc = "call"
    /\ expand_then_mkdir
    /\ UNCHANGED <<entry, max_concurrent, resume, retries_enabled, max_attempts,
                   server, init_disk, template, faults, cancelled, next_url, pc,
                   disk, meta, task, attempt, requests, written, started,
                   progress, completions, completed_files, failed_files>>

\* download_all, lines 209-230.
download_all_call ==
    /\ Cli /\ opc = "call"
    /\ completed_files' = <<>>
    /\ failed_files' = <<>>
    /\ expand_then_mkdir
    /\ UNCHANGED <<entry, max_concurrent, resume, retries_enabled, max_attempts,
                   server, init_disk, template, faults, cancelled, next_url, pc,
                   disk, meta, task, attempt, requests, written, started,
                   progress, completions>>

NextExpand == download_files_call \/ download_all_call

SpecExpand == InitExpand /\ [][NextExpand]_vars

\* ----------------------------------------------------------------- claims
Count(seq, x) == Cardinality({i \in 1..Len(seq) : seq[i] = x})
InFetching == {u \in Active : pc[u] \in Fetching}
IsPrefix(a, b) == Len(a) <= Len(b) /\ SubSeq(b, 1, Len(a)) = a

\* C1: at every moment at most max_concurrent units hold a permit (issue or
\* stream their content request), in download_files and in download_all.
C1_FetchingBounded == Cardinality(InFetching) <= max_concurrent

\* C1 witness: the gate is full and another unit waits for a permit.
C1_Witness ==
    /\ Cardinality(InFetching) = max_concurrent
    /\ \E u \in Active : pc[u] = "acquire"

\* C2: when download_files is over, on_complete has been fired exactly once
\* for every URL of the template.
C2_CompleteExactlyOnce ==
    Gui /\ Finished => \A u \in Active : Len(completions[u]) = 1

\* C3: the orchestrator call is over only when every unit it created is
\* terminal.
C3_FinishAfterAllTerminal ==
    Finished => \A u \in Active : pc[u] # "none" => pc[u] \in Terminal

\* C4: a failed unit is reported once, as a failure and not as a success; a
\* failure alone never makes the orchestrator raise; and when the call
\* returns every target has exactly one report.
C4_FailureIsolated ==
    /\ \A u \in Active : pc[u] = "failed" =>
          IF Gui THEN completions[u] = <<FALSE>>
          ELSE Count(failed_files, u) = 1 /\ Count(completed_files, u) = 0
    /\ ~cancelled => opc # "raised"
    /\ opc = "returned" =>
          \A u \in Active :
             IF Gui THEN Len(completions[u]) = 1
             ELSE Count(failed_files, u) + Count(completed_files, u) = 1

\* C4 witness: a run that returned with one unit failed and a sibling done.
C4_Witness ==
    /\ opc = "returned"
    /\ \E u, v \in Active : pc[u] = "failed" /\ pc[v] = "done"

\* C5: a unit that resumes (append mode) requests the bytes from the size of
\* the local file it found, keeps those bytes, and on success holds them
\* followed by the bytes fetched: the whole remote file, once.
C5_ResumeAppends ==
    \A u \in Active : Gui /\ task[u].mode = "ab" =>
       LET old == init_disk[u].data IN
       /\ requests[u] # <<>> =>
             /\ Last(requests[u]).offset = Len(old)
             /\ Last(requests[u]).ranged = (Len(old) > 0)
       /\ disk[u].exists /\ IsPrefix(old, disk[u].data)
       /\ pc[u] \in {"stream", "done", "cancelled"} =>
             disk[u].data = old \o written[u]
       /\ pc[u] = "done" =>
             /\ disk[u].data = Content
             /\ Len(disk[u].data) = task[u].server_size

\* C5 witness: a resumed unit that is done, with bytes of both origins.
C5_Witness ==
    \E u \in Active :
       /\ Gui /\ task[u].mode = "ab" /\ pc[u] = "done"
       /\ init_disk[u].data # <<>> /\ written[u] # <<>>

\* C6: a unit whose local file has the size the probe reported is done at
\* once: no content request, no permit, no byte written, the file as it was,
\* no sidecar, one on_complete(True).
C6_AlreadyDownloaded ==
    \A u \in Active :
       (/\ Gui /\ init_disk[u].exists
        /\ task[u].server_size = Len(init_disk[u].data)) =>
          /\ pc[u] = "done"
          /\ requests[u] = <<>> /\ written[u] = <<>>
          /\ disk[u] = init_disk[u]
          /\ ~meta[u]
          /\ completions[u] = <<TRUE>>

\* C6 witness: a unit that probed a size equal to that of its local file.
C6_Witness ==
    \E u \in Active :
       /\ Gui /\ init_disk[u].exists
       /\ task[u].server_size = Len(init_disk[u].data)

\* C7: a cancelled unit leaves its file in place, holding what was there at
\* its write offset followed by the chunks it wrote, and leaves the sidecar.
C7_CancelKeepsPartial ==
    \A u \in Active : pc[u] = "cancelled" =>
       /\ disk[u].exists
       /\ disk[u].data =
             (IF task[u].mode = "ab" THEN init_disk[u].data ELSE <<>>)
                \o written[u]
       /\ disk[u].data = SubSeq(Content, 1, task[u].downloaded)
       /\ meta[u]

\* C7 witness: a unit cancelled after it wrote a chunk, and one cancelled
\* before its first write.
C7_Witness ==
    /\ \E u \in Active : pc[u] = "cancelled" /\ written[u] # <<>>
    /\ \E u \in Active : pc[u] = "cancelled" /\ disk[u].data = <<>>

C9_Limit == IF retries_enabled THEN max_attempts ELSE 1

\* C9: a unit issues one content request per attempt and at most
\* max_attempts of them (one with retries disabled); it is failed only after
\* that many; after its success or failure it issues no further request.
C9_AttemptsBounded ==
    /\ [](\A u \in Active : Cli =>
            /\ Len(requests[u]) = attempt[u]
            /\ attempt[u] <= C9_Limit
            /\ pc[u] = "failed" => attempt[u] = C9_Limit)
    /\ [][\A u \in Active :
            pc[u] \in {"done", "failed"} => requests'[u] = requests[u]]_vars

\* C9 witness: a unit failed after max_attempts > 1 attempts.
C9_Witness ==
    /\ Cli /\ retries_enabled /\ max_attempts > 1
    /\ \E u \in Active : pc[u] = "failed" /\ attempt[u] = max_attempts

\* C10 as claimed: no sidecar exists for a unit that ended in success or in
\* a failure other than cancellation.
C10_NoSidecarAfterEnd ==
    \A u \in Active : Gui /\ pc[u] \in {"done", "failed"} => ~meta[u]

\* C10 as amended: no sidecar exists for a unit that ended in a failure
\* other than cancellation; the sidecar written before the content request
\* is still there after a success and after a cancellation.
C10_SidecarFate ==
    \A u \in Active : Gui =>
       /\ pc[u] = "failed" => ~meta[u]
       /\ pc[u] \in {"done", "cancelled"} /\ requests[u] # <<>> => meta[u]

\* C10 witness: a unit that succeeded by fetching, and a unit that failed
\* after its sidecar was written.
C10_Witness ==
    /\ Gui
    /\ \E u \in Active : pc[u] = "done" /\ requests[u] # <<>>
    /\ \E u \in Active : pc[u] = "failed" /\ requests[u] # <<>>

\* C11 as claimed: a probe that failed, by its status or by a transport
\* error, never fails the unit: a unit fails only after its content request.
C11_ProbeFailureNeverFails ==
    \A u \in Active : Gui /\ pc[u] = "failed" => requests[u] # <<>>

\* C12 as claimed: on_start has been fired only for a unit that was admitted
\* by the gate or that short-circuited as already downloaded.
C12_StartOnlyWhenAdmitted ==
    \A u \in Active :
       Gui /\ started[u] > 0 => requests[u] # <<>> \/ pc[u] = "done"

\* C12 as amended: on_start is fired once for every URL the spawning loop
\* reaches, when it reaches it, before the unit's coroutine runs; never for
\* a URL the loop did not reach, and never again later.
C12_StartAtSpawn ==
    \A u \in Active :
       Gui => started[u] = (IF pc[u] = "none" THEN 0 ELSE 1)

\* C12 witness: a started unit that waits for a permit, beside a started
\* unit that is already terminal.
C12_Witness ==
    /\ \E u \in Active : Gui /\ started[u] = 1 /\ pc[u] = "acquire"
    /\ \E u \in Active : Gui /\ started[u] = 1 /\ pc[u] \in Terminal

\* C13: the byte counts of a unit's successive progress events never
\* decrease, from the resume event through the chunks and the retried
\* attempts, and a terminal unit emits no progress event.
C13_ProgressMonotone ==
    [][\A u \in Active :
          /\ (progress[u] # <<>> /\ progress'[u] # progress[u]) =>
                /\ progress'[u] # <<>>
                /\ progress'[u][1] >= progress[u][1]
          /\ pc[u] \in Terminal => progress'[u] = progress[u]]_vars

\* C13 witness: a unit of download_all done at a retried attempt, whose
\* count went on from what the failed attempt had reported.
C13_Witness ==
    \E u \in Active :
       /\ Cli /\ attempt[u] > 1 /\ pc[u] = "done"
       /\ progress[u] # <<>> /\ progress[u][1] > Len(disk[u].data)

\* C14: the permits in use are those of the units inside Fetching, no more
\* than max_concurrent are ever free, and all are free once every unit is
\* terminal.
C14_PermitsBalanced ==
    /\ value = max_concurrent - Cardinality(InFetching)
    /\ value <= max_concurrent
    /\ (\A u \in Active : pc[u] \in Terminal) => value = max_concurrent

\* C14 witness: every unit is terminal, one cancelled while streaming and
\* one failed after it was admitted.
C14_Witness ==
    /\ \A u \in Active : pc[u] \in Terminal
    /\ \E u \in Active : pc[u] = "cancelled"
    /\ \E u \in Active : pc[u] = "failed" /\ requests[u] # <<>>

\* C16 as claimed: whatever the units' outcomes, failures and cancellation
\* included, the orchestrator call does not end by an exception.
C16_ReturnsNormally == opc # "raised"

\* C20 as claimed: every progress event carries a total hint above 0, and
\* when neither the probe nor the response gave a size, the hint of an event
\* that follows a chunk write is the byte count of that event.
C20_TotalHint ==
    \A u \in Active : progress[u] # <<>> =>
       /\ progress[u][2] > 0
       /\ (~server.sends_length /\ written[u] # <<>>) =>
             progress[u][2] = progress[u][1]

\* What the claims about templates speak of: the number token of a URL made
\* from the template, and whether the text around it is the template's.
AllDigits(s) == s # <<>> /\ \A k \in 1..Len(s) : IsDigit(s[k])
Canonical(tok) == AllDigits(tok) /\ (Len(tok) = 1 \/ tok[1] # "0")
Padded(start_str) == Len(start_str) > 1 /\ start_str[1] = "0"
TokenOf(url) ==
    SubSeq(url, Len(template.prefix) + 1, Len(url) - Len(template.suffix))
KeepsContext(url) ==
    /\ Len(url) > Len(template.prefix) + Len(template.suffix)
    /\ SubSeq(url, 1, Len(template.prefix)) = template.prefix
    /\ SubSeq(url, Len(url) - Len(template.suffix) + 1, Len(url))
          = template.suffix
NothingDone ==
    /\ expanded = <<>> /\ urls = 0 /\ ~output_dir
    /\ \A u \in Units :
          /\ pc[u] = "none" /\ started[u] = 0
          /\ requests[u] = <<>> /\ completions[u] = <<>>

\* C15 as claimed: the URLs of a valid template have pairwise distinct file
\* names, hence distinct local paths, wherever the token sits.
C15_DistinctPaths ==
    opc = "spawn" =>
       \A i, j \in 1..Len(expanded) :
          i < j => filename(expanded[i]) # filename(expanded[j])

\* C17: for a start literal that is not zero-padded, the URLs are
\* end - start + 1 in number and the i-th is the template with the token
\* replaced by start + i in decimal, the text around it unchanged.
C17_ExpandPlain ==
    (opc = "spawn" /\ ~Padded(template.start_str)) =>
       LET start == int(template.start_str)
           end == int(template.end_str)
       IN  /\ Len(expanded) = end - start + 1
           /\ \A i \in 1..Len(expanded) :
                 /\ KeepsContext(expanded[i])
                 /\ Canonical(TokenOf(expanded[i]))
                 /\ int(TokenOf(expanded[i])) = start + i - 1

\* C17 witness: an expansion whose numbers grow by a digit, with text after
\* the token.
C17_Witness ==
    /\ opc = "spawn" /\ ~Padded(template.start_str)
    /\ template.suffix # <<>>
    /\ Len(TokenOf(expanded[1])) < Len(TokenOf(expanded[Len(expanded)]))

\* C18 as claimed: for a zero-padded start literal of length W every number
\* token has width W.
C18_PaddedWidth ==
    (opc = "spawn" /\ Padded(template.start_str)) =>
       \A i \in 1..Len(expanded) :
          Len(TokenOf(expanded[i])) = Len(template.start_str)

\* C18 as amended: for a zero-padded start literal of length W every number
\* is padded with zeros up to width W and rendered in full when it has more
\* digits; for any other start literal, the single 0 included, the numbers
\* are rendered without padding.
C18_PaddedAtLeastWidth ==
    opc = "spawn" =>
       \A i \in 1..Len(expanded) :
          LET tok == TokenOf(expanded[i])
              W == Len(template.start_str)
          IN  /\ AllDigits(tok)
              /\ int(tok) = int(template.start_str) + i - 1
              /\ IF Padded(template.start_str)
                 THEN Len(tok) >= W /\ (Len(tok) > W => tok[1] # "0")
                 ELSE Canonical(tok)

\* C18 witness: a padded expansion with a padded number and with a number
\* wider than the start literal.
C18_Witness ==
    /\ opc = "spawn" /\ Padded(template.start_str)
    /\ TokenOf(expanded[1])[1] = "0"
    /\ Len(TokenOf(expanded[Len(expanded)])) > Len(template.start_str)

\* C19: a text without a token is refused with the template error, a token
\* with start > end with the range error, a different one; then no URL
\* exists, no directory was made, no event fired, no unit spawned and no
\* request issued. Any other template is accepted.
C19_InvalidFailsFirst ==
    /\ NoTokenError # RangeError
    /\ opc # "call" =>
          IF template.kind = "none"
          THEN opc = "invalid" /\ error = NoTokenError /\ NothingDone
          ELSE IF int(template.start_str) > int(template.end_str)
          THEN opc = "invalid" /\ error = RangeError /\ NothingDone
          ELSE opc = "spawn" /\ error = NoError

\* C19 witness: a call refused for a token with start > end.
C19_Witness ==
    /\ opc = "invalid" /\ error = RangeError
    /\ template.kind = "token"

\* C21: a content request that carried a Range header is accepted only with
\* status 206 and one without it only with status 200; after any other
\* status, a 200 answer to a ranged request among them, the unit has failed
\* and its local file is as the run found it: nothing was opened, truncated
\* or appended.
C21_StatusGate ==
    \A u \in Active :
        Gui /\ requests[u] # <<>> =>
            LET req == Last(requests[u])
                accepted == task[u].status = (IF req.ranged THEN 206 ELSE 200)
            IN  /\ pc[u] \in {"stream", "done", "cancelled"} => accepted
                /\ (disk[u] # init_disk[u] \/ written[u] # <<>>) => accepted
                /\ task[u].status # 0 /\ ~accepted =>
                       /\ pc[u] = "failed"
                       /\ disk[u] = init_disk[u]
                       /\ written[u] = <<>>

\* C21 witness: a ranged request was answered with 200; the unit failed and
\* the partial file is as it was.
C21_Witness ==
    /\ Gui
    /\ \E u \in Active :
          /\ requests[u] # <<>> /\ Last(requests[u]).ranged
          /\ task[u].status = 200 /\ pc[u] = "failed"
          /\ disk[u] = init_disk[u] /\ disk[u].data # <<>>

\* C22: once a unit has decided, it appends from offset = local size exactly
\* when the local file exists, resume is on, the probe gave a size, the
\* server advertises ranges and local size < that size; with no size from
\* the probe it never appends, whatever the advertisement. Otherwise, unless
\* the file is already complete, it writes afresh from offset 0 and its
\* request carries no Range header.
C22_DecidingSelects ==
    \A u \in Active :
        Gui /\ task[u].mode # "" =>
            LET file == init_disk[u]
                local_size == Len(file.data)
                known == server.head_ok /\ server.sends_length
                resumable == /\ file.exists /\ resume /\ known
                             /\ server.accept_ranges /\ local_size < Size
                offset == IF resumable THEN local_size ELSE 0
            IN  /\ task[u].mode = (IF resumable THEN "ab" ELSE "wb")
                /\ ~known => task[u].mode = "wb"
                /\ ~(file.exists /\ known /\ local_size = Size)
                /\ task[u].downloaded = offset + Len(written[u])
                /\ requests[u] # <<>> =>
                       /\ Len(requests[u]) = 1
                       /\ requests[u][1].offset = offset
                       /\ requests[u][1].ranged = (offset > 0)

\* C22 witness: a unit that found a partial file, with resume on and a
\* server that gave the size and advertises ranges, waits for the answer to
\* its request for the bytes from the local size on.
C22_Witness ==
    /\ Gui /\ resume /\ server.head_ok /\ server.sends_length
    /\ server.accept_ranges
    /\ \E u \in Active :
          /\ init_disk[u].exists /\ Len(init_disk[u].data) \in 1..(Size - 1)
          /\ pc[u] = "get" /\ task[u].mode = "ab"
          /\ requests[u] = <<[ranged |-> TRUE,
                              offset |-> Len(init_disk[u].data)]>>

\* C23: with the loop running every ready coroutine and every network call
\* ending, a unit that waits for a permit is eventually given one, and a
\* unit whose coroutine has begun to run eventually is done, failed or
\* cancelled.
C23_AcquiresAndEnds ==
    \A u \in Units :
        /\ (pc[u] = "acquire") ~> (pc[u] = "get")
        /\ (pc[u] \notin {"none", "created"}) ~> (pc[u] \in Terminal)

\* C24: in a step taken with the cancellation flag set, the file, the bytes
\* written and the progress reported of a streaming unit stay as they are,
\* and a streaming unit that receives a chunk leaves the loop: it reports
\* on_complete(False) and is cancelled, unless the transport fails first.
C24_PolledBeforeWrite ==
    [][cancelled =>
         \A u \in Active :
             Gui /\ pc[u] = "stream" =>
                 /\ disk'[u] = disk[u]
                 /\ written'[u] = written[u]
                 /\ progress'[u] = progress[u]
                 /\ task[u].body # <<>> /\ pc'[u] # "stream" =>
                        \/ pc'[u] = "failed"
                        \/ /\ pc'[u] = "cancelled"
                           /\ completions'[u] = Append(completions[u], FALSE)
    ]_vars

\* C24 witness: with the flag set, a unit that had written part of the body
\* received a further chunk, did not write it and is cancelled.
C24_Witness ==
    /\ cancelled
    /\ \E u \in Active :
          /\ pc[u] = "cancelled" /\ task[u].body # <<>>
          /\ written[u] # <<>> /\ Len(written[u]) < Size
          /\ progress[u][1] = task[u].downloaded
          /\ completions[u] = <<FALSE>>

\* C25: after a chunk write, the byte count of the unit's last progress
\* event is the length of the unit's local file: in download_files writing
\* afresh or resuming, in download_all at the first and at retried attempts.
C25_ReportedIsOnDisk ==
    \A u \in Active :
        pc[u] = "stream" /\ written[u] # <<>> =>
            /\ progress[u] # <<>>
            /\ progress[u][1] = Len(disk[u].data)

====
